---- MODULE Spec2Model ----
(***************************************************************************)
(* SmartThings climate platform (custom_components/smartthings/climate.py).*)
(*                                                                         *)
(* One device and the climate entity built for it.  The device is the      *)
(* pysmartthings DeviceEntity the entity holds: its capability list and    *)
(* its status (attribute snapshot).  The entity is a SmartThingsThermostat *)
(* or a SmartThingsAirConditioner.  Every coroutine of the entity is cut   *)
(* at its awaits: the part up to the await dispatches transport commands,  *)
(* the transport completes each command with an outcome, and the coroutine *)
(* resumes once what it awaits is done.                                    *)
(***************************************************************************)
EXTENDS Integers, Sequences, FiniteSets, TLC

VARIABLES
    capabilities,     \* device.capabilities
    assigned,         \* broker.any_assigned(device_id, "climate")
    entity,           \* what async_setup_entry appended for the device
    relevant,         \* what get_capabilities(device.capabilities) returned
    status,           \* device.status: string-valued attributes
    numbers,          \* device.status: numeric attributes
    lists,            \* device.status: list-valued attributes and mnmo
    self_hvac_mode,   \* SmartThingsThermostat._hvac_mode
    self_hvac_modes,  \* _hvac_modes of either class
    calls,            \* the coroutines of the entity the host is running
    update_scheduled  \* async_schedule_update_ha_state(True) is outstanding

vars == <<capabilities, assigned, entity, relevant, status, numbers, lists,
          self_hvac_mode, self_hvac_modes, calls, update_scheduled>>

(***************************************************************************)
(* Values.                                                                 *)
(***************************************************************************)
\* Python's None where a string is expected.
None == "None"
\* Python's None where a number is expected.
NoNumber == 0 - 1

\* HVACMode of homeassistant.components.climate.const, by value.
HVAC_OFF == "off"
HVAC_HEAT == "heat"
HVAC_COOL == "cool"
HVAC_HEAT_COOL == "heat_cool"
HVAC_AUTO == "auto"
HVAC_DRY == "dry"
HVAC_FAN_ONLY == "fan_only"
HVACMode == {HVAC_OFF, HVAC_HEAT, HVAC_COOL, HVAC_HEAT_COOL, HVAC_AUTO,
             HVAC_DRY, HVAC_FAN_ONLY}

\* A dict as a function; dict.get(key) with None for a missing key.
Get(table, key) == IF key \in DOMAIN table THEN table[key] ELSE None

MODE_TO_STATE ==
    [t \in {"auto", "cool", "eco", "rush hour", "emergency heat", "heat",
            "off", "wind"} |->
        CASE t = "auto" -> HVAC_HEAT_COOL
          [] t = "cool" -> HVAC_COOL
          [] t = "eco" -> HVAC_AUTO
          [] t = "rush hour" -> HVAC_AUTO
          [] t = "emergency heat" -> HVAC_HEAT
          [] t = "heat" -> HVAC_HEAT
          [] t = "off" -> HVAC_OFF
          [] t = "wind" -> HVAC_FAN_ONLY]

\* STATE_TO_MODE sending "eco" for heat_cool.
STATE_TO_MODE_EcoForHeatCool ==
    [m \in {HVAC_HEAT_COOL, HVAC_COOL, HVAC_HEAT, HVAC_OFF, HVAC_FAN_ONLY} |->
        CASE m = HVAC_HEAT_COOL -> "eco"
          [] m = HVAC_COOL -> "cool"
          [] m = HVAC_HEAT -> "heat"
          [] m = HVAC_OFF -> "off"
          [] m = HVAC_FAN_ONLY -> "wind"]

STATE_TO_MODE ==
    [m \in {HVAC_HEAT_COOL, HVAC_COOL, HVAC_HEAT, HVAC_OFF, HVAC_FAN_ONLY} |->
        CASE m = HVAC_HEAT_COOL -> "auto"
          [] m = HVAC_COOL -> "cool"
          [] m = HVAC_HEAT -> "heat"
          [] m = HVAC_OFF -> "off"
          [] m = HVAC_FAN_ONLY -> "wind"]

AC_MODE_TO_STATE ==
    [t \in {"auto", "cool", "dry", "coolClean", "dryClean", "heat",
            "heatClean", "fanOnly", "wind"} |->
        CASE t = "auto" -> HVAC_HEAT_COOL
          [] t = "cool" -> HVAC_COOL
          [] t = "dry" -> HVAC_DRY
          [] t = "coolClean" -> HVAC_COOL
          [] t = "dryClean" -> HVAC_DRY
          [] t = "heat" -> HVAC_HEAT
          [] t = "heatClean" -> HVAC_HEAT
          [] t = "fanOnly" -> HVAC_FAN_ONLY
          [] t = "wind" -> HVAC_FAN_ONLY]

STATE_TO_AC_MODE ==
    [m \in {HVAC_HEAT_COOL, HVAC_COOL, HVAC_DRY, HVAC_HEAT, HVAC_FAN_ONLY} |->
        CASE m = HVAC_HEAT_COOL -> "auto"
          [] m = HVAC_COOL -> "cool"
          [] m = HVAC_DRY -> "dry"
          [] m = HVAC_HEAT -> "heat"
          [] m = HVAC_FAN_ONLY -> "wind"]

(***************************************************************************)
(* Capabilities (pysmartthings.Capability, by value).                      *)
(***************************************************************************)
CAP_AC_MODE == "airConditionerMode"
CAP_AC_FAN_MODE == "airConditionerFanMode"
CAP_SWING == "fanOscillationMode"
CAP_SWITCH == "switch"
CAP_TEMPERATURE == "temperatureMeasurement"
CAP_THERMOSTAT == "thermostat"
CAP_COOLING_SETPOINT == "thermostatCoolingSetpoint"
CAP_THERMOSTAT_FAN_MODE == "thermostatFanMode"
CAP_HEATING_SETPOINT == "thermostatHeatingSetpoint"
CAP_THERMOSTAT_MODE == "thermostatMode"
CAP_OPERATING_STATE == "thermostatOperatingState"
CAP_EXECUTE == "execute"
CAP_PRESET == "custom.airConditionerOptionalMode"
CAP_SETPOINT_CONTROL == "custom.thermostatSetpointControl"
CAP_HUMIDITY == "relativeHumidityMeasurement"
CAP_DUST_FILTER == "samsungce.dustFilter"
\* A capability no climate code names.
CAP_OTHER == "battery"

\* all(capability in have for capability in wanted)
All(wanted, have) ==
    \A i \in 1..Len(wanted) : wanted[i] \in have

\* async_setup_entry: ac_capabilities
SetupAcCapabilities ==
    <<CAP_AC_MODE, CAP_AC_FAN_MODE, CAP_SWITCH, CAP_TEMPERATURE,
      CAP_COOLING_SETPOINT>>

\* async_setup_entry: thermostat_capabilities
SetupThermostatCapabilities ==
    <<CAP_TEMPERATURE, CAP_COOLING_SETPOINT, CAP_HEATING_SETPOINT,
      CAP_THERMOSTAT_MODE>>

\* The body of async_setup_entry's loop for one device: the entity appended.
SetupEntityFor(caps, isAssigned) ==
    IF ~isAssigned THEN "none"
    ELSE IF All(SetupAcCapabilities, caps) THEN "AirConditioner"
    ELSE IF CAP_THERMOSTAT \in caps \/ All(SetupThermostatCapabilities, caps)
         THEN "Thermostat"
    ELSE "none"

\* get_capabilities: supported
Supported ==
    <<CAP_AC_MODE, CAP_AC_FAN_MODE, CAP_SWING, CAP_SWITCH, CAP_TEMPERATURE,
      CAP_THERMOSTAT, CAP_COOLING_SETPOINT, CAP_THERMOSTAT_FAN_MODE,
      CAP_HEATING_SETPOINT, CAP_THERMOSTAT_MODE, CAP_OPERATING_STATE,
      CAP_EXECUTE, CAP_PRESET, CAP_SETPOINT_CONTROL, CAP_HUMIDITY,
      CAP_DUST_FILTER>>

\* get_capabilities: thermostat_capabilities
ThermostatCapabilities ==
    <<CAP_TEMPERATURE, CAP_COOLING_SETPOINT, CAP_HEATING_SETPOINT,
      CAP_THERMOSTAT_MODE>>

\* get_capabilities: ac_capabilities (fan mode commented out)
AcCapabilities ==
    <<CAP_AC_MODE, CAP_SWITCH, CAP_TEMPERATURE, CAP_COOLING_SETPOINT>>

IsThermostat(caps) ==
    CAP_THERMOSTAT \in caps \/ All(ThermostatCapabilities, caps)

IsAc(caps) == All(AcCapabilities, caps)

\* The comprehension without its condition.
FilterAll(seq, have) == seq

\* [cap for cap in supported if cap in capabilities]
RECURSIVE Filter(_, _)
Filter(seq, have) ==
    IF seq = <<>> THEN <<>>
    ELSE IF Head(seq) \in have
         THEN <<Head(seq)>> \o Filter(Tail(seq), have)
         ELSE Filter(Tail(seq), have)

\* A returned list, or None.
ListOf(items) == [kind |-> "list", items |-> items]
NoneList == [kind |-> "None", items |-> <<>>]
Unset == [kind |-> "unset", items |-> <<>>]
\* list(modes) of a set of modes (in no particular order), or None.
ModesOf(modes) == [kind |-> "list", items |-> modes]
NoModes == [kind |-> "None", items |-> {}]

\* get_capabilities without its test of the minimum capabilities.
GetCapabilitiesUnchecked(caps) == ListOf(Filter(Supported, caps))

GetCapabilities(caps) ==
    IF IsThermostat(caps) \/ IsAc(caps)
    THEN ListOf(Filter(Supported, caps))
    ELSE NoneList

(***************************************************************************)
(* The device status and the transport (pysmartthings DeviceEntity, at the *)
(* calls this file makes).                                                 *)
(***************************************************************************)
ATTR_THERMOSTAT_MODE == "thermostatMode"
ATTR_AC_MODE == "airConditionerMode"
ATTR_SWITCH == "switch"
ATTR_FAN_MODE == "fanMode"
ATTR_SWING == "fanOscillationMode"
ATTR_PRESET == "acOptionalMode"
ATTR_THERMOSTAT_FAN_MODE == "thermostatFanMode"
StringAttributes ==
    {ATTR_THERMOSTAT_MODE, ATTR_AC_MODE, ATTR_SWITCH, ATTR_FAN_MODE,
     ATTR_SWING, ATTR_PRESET, ATTR_THERMOSTAT_FAN_MODE}

ATTR_HEATING_SETPOINT == "heatingSetpoint"
ATTR_COOLING_SETPOINT == "coolingSetpoint"
ATTR_TEMPERATURE_VALUE == "temperature"
ATTR_HUMIDITY == "humidity"
NumberAttributes ==
    {ATTR_HEATING_SETPOINT, ATTR_COOLING_SETPOINT, ATTR_TEMPERATURE_VALUE,
     ATTR_HUMIDITY}

ATTR_SUPPORTED_THERMOSTAT_MODES == "supportedThermostatModes"
ATTR_SUPPORTED_AC_MODES == "supportedAcModes"
ATTR_SUPPORTED_PRESETS == "supportedAcOptionalMode"
ATTR_MNMO == "mnmo"
ListAttributes ==
    {ATTR_SUPPORTED_THERMOSTAT_MODES, ATTR_SUPPORTED_AC_MODES,
     ATTR_SUPPORTED_PRESETS, ATTR_MNMO}

\* A value that is neither None nor iterable (isinstance(x, Iterable) fails).
Scalar == [kind |-> "scalar", items |-> <<>>]
\* attributes.get(name) finds no entry at all.
Absent == [kind |-> "absent", items |-> <<>>]
\* A string "a|b|c", as the list "a|b|c".split("|") returns.
StringOf(parts) == [kind |-> "str", items |-> parts]

\* device.status.switch: the attribute's value is "on".
Switch(st) == st[ATTR_SWITCH] = "on"

\* A command handed to the transport: capability, command, and its one
\* argument (arg when it is a string, num when it is a number).
Command(capability, command, arg, num) ==
    [capability |-> capability, command |-> command, arg |-> arg, num |-> num]

SetThermostatFanMode(mode) ==
    Command(CAP_THERMOSTAT_FAN_MODE, "setThermostatFanMode", mode, NoNumber)
SetThermostatMode(mode) ==
    Command(CAP_THERMOSTAT_MODE, "setThermostatMode", mode, NoNumber)
SetHeatingSetpoint(t) ==
    Command(CAP_HEATING_SETPOINT, "setHeatingSetpoint", None, t)
SetCoolingSetpoint(t) ==
    Command(CAP_COOLING_SETPOINT, "setCoolingSetpoint", None, t)
SetFanMode(mode) ==
    Command(CAP_AC_FAN_MODE, "setFanMode", mode, NoNumber)
SetAirConditionerMode(mode) ==
    Command(CAP_AC_MODE, "setAirConditionerMode", mode, NoNumber)
SwitchOn == Command(CAP_SWITCH, "on", None, NoNumber)
SwitchOff == Command(CAP_SWITCH, "off", None, NoNumber)
\* device.execute("mode/vs/0", {"x.com.samsung.da.options": [option]})
Execute(option) == Command(CAP_EXECUTE, "execute", option, NoNumber)
\* device.command("main", capability, command, [arg])
SetAcOptionalMode(preset) ==
    Command(CAP_PRESET, "setAcOptionalMode", preset, NoNumber)
SetFanOscillationMode(mode) ==
    Command(CAP_SWING, "setFanOscillationMode", mode, NoNumber)

\* What the transport answers: a truthy result, a falsy result, or it raises.
Outcomes == {"true", "false", "raise"}
Pending == "pending"

\* set_status=True: on a truthy result the device method writes the value it
\* sent into device.status.  (command() and execute() write nothing.)
StatusAfter(st, cmd) ==
    CASE cmd.command = "setThermostatFanMode" ->
            [st EXCEPT ![ATTR_THERMOSTAT_FAN_MODE] = cmd.arg]
      [] cmd.command = "setThermostatMode" ->
            [st EXCEPT ![ATTR_THERMOSTAT_MODE] = cmd.arg]
      [] cmd.command = "setFanMode" -> [st EXCEPT ![ATTR_FAN_MODE] = cmd.arg]
      [] cmd.command = "setAirConditionerMode" ->
            [st EXCEPT ![ATTR_AC_MODE] = cmd.arg]
      [] cmd.command = "on" -> [st EXCEPT ![ATTR_SWITCH] = "on"]
      [] cmd.command = "off" -> [st EXCEPT ![ATTR_SWITCH] = "off"]
      [] OTHER -> st

NumbersAfter(nums, cmd) ==
    CASE cmd.command = "setHeatingSetpoint" ->
            [nums EXCEPT ![ATTR_HEATING_SETPOINT] = cmd.num]
      [] cmd.command = "setCoolingSetpoint" ->
            [nums EXCEPT ![ATTR_COOLING_SETPOINT] = cmd.num]
      [] OTHER -> nums

(***************************************************************************)
(* Temperatures are counted in units of 10^-4 degree, so that rounding to  *)
(* three decimals does something.                                          *)
(***************************************************************************)
\* round(x, 3): the number of decimals kept.
Precision == 3

RECURSIVE Pow10(_)
Pow10(n) == IF n = 0 THEN 1 ELSE 10 * Pow10(n - 1)

\* round(x, ndigits), ties to even, on a number counted in 10^-4.
Round(x, ndigits) ==
    LET step == Pow10(4 - ndigits)
        q == x \div step
        r == x % step
    IN  IF 2 * r < step THEN q * step
        ELSE IF 2 * r > step THEN (q + 1) * step
        ELSE IF q % 2 = 0 THEN q * step ELSE (q + 1) * step

(***************************************************************************)
(* The coroutines the host is running on the entity.                       *)
(***************************************************************************)
\* How many coroutines of the entity can be in progress at once.
MaxCalls == 2
Slots == 1..MaxCalls

\* The keyword arguments of a service call; None / NoNumber for a missing key.
Args(hvac_mode, temperature, low, high, value) ==
    [hvac_mode |-> hvac_mode, temperature |-> temperature,
     target_temp_low |-> low, target_temp_high |-> high, value |-> value]
NoArgs == Args(None, NoNumber, NoNumber, NoNumber, None)

IdleCall ==
    [op |-> None, args |-> NoArgs, pc |-> "idle", issued |-> <<>>,
     outcome |-> <<>>, published |-> FALSE]

\* A coroutine is over: it returned, or an exception left it.
Over(c) == c.pc \in {"returned", "raised"}

\* A slot can take a new coroutine: nothing runs in it and no command of an
\* earlier coroutine is still with the transport.
Free(c) ==
    /\ c.pc \in {"idle", "returned", "raised"}
    /\ \A i \in 1..Len(c.outcome) : c.outcome[i] # Pending

\* The coroutine starts: it hands `tasks` to the transport and awaits them.
Started(op, args, tasks, pc) ==
    [op |-> op, args |-> args, pc |-> pc, issued |-> tasks,
     outcome |-> [i \in 1..Len(tasks) |-> Pending], published |-> FALSE]

\* The coroutine returns at once, having sent nothing.
Refused(op, args) ==
    [op |-> op, args |-> args, pc |-> "returned", issued |-> <<>>,
     outcome |-> <<>>, published |-> FALSE]

\* The set of the elements of a sequence.
Range(seq) == {seq[i] : i \in 1..Len(seq)}

(***************************************************************************)
(* Entity setup.                                                           *)
(***************************************************************************)
async_setup_entry ==
    /\ entity = "unset"
    /\ entity' = SetupEntityFor(capabilities, assigned)
    /\ UNCHANGED <<capabilities, assigned, relevant, status, numbers, lists,
                   self_hvac_mode, self_hvac_modes, calls,
                   update_scheduled>>

get_capabilities ==
    /\ relevant = Unset
    /\ relevant' = GetCapabilities(capabilities)
    /\ UNCHANGED <<capabilities, assigned, entity, status, numbers, lists,
                   self_hvac_mode, self_hvac_modes, calls,
                   update_scheduled>>

(***************************************************************************)
(* The transport and the awaits.                                           *)
(***************************************************************************)
\* What a coroutine does up to its first await.
Gather(tasks) == [kind |-> "gather", tasks |-> tasks]
Return == [kind |-> "return", tasks |-> <<>>]
Raise == [kind |-> "raise", tasks |-> <<>>]

\* A coroutine starts in slot s and runs up to its first await.
Begin(s, op, args, plan, pc) ==
    /\ Free(calls[s])
    /\ calls' = [calls EXCEPT ![s] =
            CASE plan.kind = "gather" -> Started(op, args, plan.tasks, pc)
              [] plan.kind = "return" -> Refused(op, args)
              [] plan.kind = "raise" ->
                    [Refused(op, args) EXCEPT !.pc = "raised"]]

\* The transport finishes command i of the coroutine in slot s.
Complete(s, i, o) ==
    /\ i \in 1..Len(calls[s].issued)
    /\ calls[s].outcome[i] = Pending
    /\ calls' = [calls EXCEPT ![s].outcome[i] = o]
    /\ status' = IF o = "true" THEN StatusAfter(status, calls[s].issued[i])
                 ELSE status
    /\ numbers' = IF o = "true" THEN NumbersAfter(numbers, calls[s].issued[i])
                  ELSE numbers
    /\ UNCHANGED <<capabilities, assigned, entity, relevant, lists,
                   self_hvac_mode, self_hvac_modes, update_scheduled>>

AnyRaised(c) == \E i \in 1..Len(c.outcome) : c.outcome[i] = "raise"
AllDone(c) == \A i \in 1..Len(c.outcome) : c.outcome[i] # Pending

\* `await command` / `await asyncio.gather(*tasks)` raises: the first
\* exception among the awaited commands leaves the coroutine, the other
\* commands stay with the transport.
ResumeRaised(s) ==
    /\ calls[s].pc = "await"
    /\ AnyRaised(calls[s])
    /\ calls' = [calls EXCEPT ![s].pc = "raised"]
    /\ UNCHANGED <<capabilities, assigned, entity, relevant, status, numbers,
                   lists, self_hvac_mode, self_hvac_modes,
                   update_scheduled>>

\* The await returns: SmartThingsThermostat schedules a forced update
\* (async_schedule_update_ha_state(True)), SmartThingsAirConditioner writes
\* its state (async_write_ha_state).
ResumeDone(s) ==
    /\ calls[s].pc = "await"
    /\ AllDone(calls[s])
    /\ ~AnyRaised(calls[s])
    /\ calls' = [calls EXCEPT ![s].pc = "returned", ![s].published = TRUE]
    /\ update_scheduled' = (update_scheduled \/ entity = "Thermostat")
    /\ UNCHANGED <<capabilities, assigned, entity, relevant, status, numbers,
                   lists, self_hvac_mode, self_hvac_modes>>

(***************************************************************************)
(* SmartThingsThermostat.                                                  *)
(***************************************************************************)
ThermostatSetFanModePlan(fan_mode) ==
    Gather(<<SetThermostatFanMode(fan_mode)>>)

ThermostatSetFanMode(s, fan_mode) ==
    /\ entity = "Thermostat"
    /\ Begin(s, "set_fan_mode", [NoArgs EXCEPT !.value = fan_mode],
             ThermostatSetFanModePlan(fan_mode), "await")
    /\ UNCHANGED <<capabilities, assigned, entity, relevant, status, numbers,
                   lists, self_hvac_mode, self_hvac_modes, update_scheduled>>

\* async_set_hvac_mode handing an unmapped mode to the device as it is.
ThermostatSetHvacModePlanPassThrough(hvac_mode) ==
    LET mode == Get(STATE_TO_MODE, hvac_mode)
    IN  Gather(<<SetThermostatMode(IF mode = None THEN hvac_mode ELSE mode)>>)

ThermostatSetHvacModePlan(hvac_mode) ==
    LET mode == Get(STATE_TO_MODE, hvac_mode)
    IN  IF mode = None THEN Return ELSE Gather(<<SetThermostatMode(mode)>>)

ThermostatSetHvacMode(s, hvac_mode) ==
    /\ entity = "Thermostat"
    /\ Begin(s, "set_hvac_mode", [NoArgs EXCEPT !.hvac_mode = hvac_mode],
             ThermostatSetHvacModePlan(hvac_mode), "await")
    /\ UNCHANGED <<capabilities, assigned, entity, relevant, status, numbers,
                   lists, self_hvac_mode, self_hvac_modes, update_scheduled>>

\* async_set_temperature writing the single temperature to both setpoints.
ThermostatSetTemperaturePlanBoth(hvac_mode, kwargs) ==
    LET target_hvac_mode ==
            IF kwargs.hvac_mode # None THEN kwargs.hvac_mode ELSE hvac_mode
        t == kwargs.temperature
    IN  IF target_hvac_mode \in {HVAC_HEAT, HVAC_COOL} /\ t # NoNumber
        THEN Gather(<<SetHeatingSetpoint(Round(t, Precision)),
                      SetCoolingSetpoint(Round(t, Precision))>>)
        ELSE Return

\* async_set_temperature choosing the setpoint by the cached mode alone.
ThermostatSetTemperaturePlanCachedMode(hvac_mode, kwargs) ==
    LET mode == Get(STATE_TO_MODE, kwargs.hvac_mode)
        modeTasks ==
            IF kwargs.hvac_mode # None /\ mode # None
            THEN <<SetThermostatMode(mode)>> ELSE <<>>
        heatTasks ==
            IF hvac_mode = HVAC_HEAT /\ kwargs.temperature # NoNumber
            THEN <<SetHeatingSetpoint(Round(kwargs.temperature, Precision))>>
            ELSE <<>>
        coolTasks ==
            IF hvac_mode = HVAC_COOL /\ kwargs.temperature # NoNumber
            THEN <<SetCoolingSetpoint(Round(kwargs.temperature, Precision))>>
            ELSE <<>>
        tasks == modeTasks \o heatTasks \o coolTasks
    IN  IF tasks # <<>> THEN Gather(tasks) ELSE Return

\* async_set_temperature writing the bounds of heat_cool only as a pair.
ThermostatSetTemperaturePlanPairOnly(hvac_mode, kwargs) ==
    LET target_hvac_mode ==
            IF kwargs.hvac_mode # None THEN kwargs.hvac_mode ELSE hvac_mode
        low == kwargs.target_temp_low
        high == kwargs.target_temp_high
    IN  IF target_hvac_mode = HVAC_HEAT_COOL /\ low # NoNumber
            /\ high # NoNumber
        THEN Gather(<<SetHeatingSetpoint(Round(low, Precision)),
                      SetCoolingSetpoint(Round(high, Precision))>>)
        ELSE Return

\* async_set_temperature up to `if tasks:`; hvac_mode is self.hvac_mode.
ThermostatSetTemperaturePlan(hvac_mode, kwargs) ==
    LET mode == Get(STATE_TO_MODE, kwargs.hvac_mode)
        modeTasks ==
            IF kwargs.hvac_mode # None /\ mode # None
            THEN <<SetThermostatMode(mode)>> ELSE <<>>
        target_hvac_mode ==
            IF kwargs.hvac_mode # None THEN kwargs.hvac_mode ELSE hvac_mode
        heating_setpoint ==
            CASE target_hvac_mode = HVAC_HEAT -> kwargs.temperature
              [] target_hvac_mode = HVAC_HEAT_COOL -> kwargs.target_temp_low
              [] OTHER -> NoNumber
        cooling_setpoint ==
            CASE target_hvac_mode = HVAC_COOL -> kwargs.temperature
              [] target_hvac_mode = HVAC_HEAT_COOL -> kwargs.target_temp_high
              [] OTHER -> NoNumber
        heatTasks ==
            IF heating_setpoint # NoNumber
            THEN <<SetHeatingSetpoint(Round(heating_setpoint, Precision))>>
            ELSE <<>>
        coolTasks ==
            IF cooling_setpoint # NoNumber
            THEN <<SetCoolingSetpoint(Round(cooling_setpoint, Precision))>>
            ELSE <<>>
        tasks == modeTasks \o heatTasks \o coolTasks
    IN  IF tasks # <<>> THEN Gather(tasks) ELSE Return

ThermostatSetTemperature(s, kwargs) ==
    /\ entity = "Thermostat"
    /\ Begin(s, "set_temperature", kwargs,
             ThermostatSetTemperaturePlan(self_hvac_mode, kwargs), "await")
    /\ UNCHANGED <<capabilities, assigned, entity, relevant, status, numbers,
                   lists, self_hvac_mode, self_hvac_modes, update_scheduled>>

\* The modes the tokens of a list translate to; tokens the table lacks are
\* skipped.
Translated(table, tokens) ==
    {table[t] : t \in Range(tokens) \cap DOMAIN table}

\* async_update adding to the modes it had instead of replacing them.
ThermostatUpdatedAccumulating(st, ls, old_modes) ==
    LET supported_modes == ls[ATTR_SUPPORTED_THERMOSTAT_MODES]
        modes ==
            (IF supported_modes.kind = "list"
             THEN Translated(MODE_TO_STATE, supported_modes.items) ELSE {})
            \cup (IF old_modes.kind = "list" THEN old_modes.items ELSE {})
    IN  [hvac_mode |-> Get(MODE_TO_STATE, st[ATTR_THERMOSTAT_MODE]),
         hvac_modes |-> IF modes # {} THEN ModesOf(modes)
                        ELSE ModesOf({HVAC_OFF}),
         raised |-> FALSE]

\* async_update falling back to off for a token the table lacks.
ThermostatUpdatedDefaultOff(st, ls, old_modes) ==
    LET supported_modes == ls[ATTR_SUPPORTED_THERMOSTAT_MODES]
        modes ==
            IF supported_modes.kind = "list"
            THEN Translated(MODE_TO_STATE, supported_modes.items) ELSE {}
        hvac_mode == Get(MODE_TO_STATE, st[ATTR_THERMOSTAT_MODE])
    IN  [hvac_mode |-> IF hvac_mode = None THEN HVAC_OFF ELSE hvac_mode,
         hvac_modes |-> IF modes # {} THEN ModesOf(modes)
                        ELSE ModesOf({HVAC_OFF}),
         raised |-> FALSE]

\* SmartThingsThermostat.async_update: the new (_hvac_mode, _hvac_modes).
\* `x in (supported_modes or [])` raises TypeError on a value that is not
\* iterable, after _hvac_mode is assigned and before _hvac_modes is.
ThermostatUpdated(st, ls, old_modes) ==
    LET supported_modes == ls[ATTR_SUPPORTED_THERMOSTAT_MODES]
        modes ==
            (IF supported_modes.kind = "list"
             THEN Translated(MODE_TO_STATE, supported_modes.items) ELSE {})
            \cup
            (IF HVAC_OFF \in DOMAIN STATE_TO_MODE
                /\ STATE_TO_MODE[HVAC_OFF] \in Range(supported_modes.items)
             THEN {HVAC_OFF} ELSE {})
    IN  [hvac_mode |-> Get(MODE_TO_STATE, st[ATTR_THERMOSTAT_MODE]),
         hvac_modes |->
            IF supported_modes.kind = "scalar" THEN old_modes
            ELSE IF modes # {} THEN ModesOf(modes) ELSE ModesOf({HVAC_OFF}),
         raised |-> supported_modes.kind = "scalar"]

ThermostatUpdate ==
    /\ entity = "Thermostat"
    /\ LET new == ThermostatUpdated(status, lists, self_hvac_modes)
       IN  /\ self_hvac_mode' = new.hvac_mode
           /\ self_hvac_modes' = new.hvac_modes
    /\ update_scheduled' = FALSE
    /\ UNCHANGED <<capabilities, assigned, entity, relevant, status, numbers,
                   lists, calls>>

\* SmartThingsThermostat.current_humidity
ThermostatCurrentHumidity(caps, nums) ==
    IF CAP_HUMIDITY \in caps THEN nums[ATTR_HUMIDITY] ELSE NoNumber

\* SmartThingsThermostat.current_temperature
ThermostatCurrentTemperature(caps, nums) == nums[ATTR_TEMPERATURE_VALUE]

\* SmartThingsAirConditioner.current_humidity
AcCurrentHumidity(caps, nums) ==
    IF CAP_HUMIDITY \in caps THEN nums[ATTR_HUMIDITY] ELSE NoNumber

\* SmartThingsAirConditioner.current_temperature
AcCurrentTemperature(caps, nums) ==
    IF CAP_TEMPERATURE \in caps THEN nums[ATTR_TEMPERATURE_VALUE]
    ELSE NoNumber

\* target_temperature reporting the heating setpoint in heat_cool as well.
ThermostatTargetTemperatureInRange(hvac_mode, nums) ==
    IF hvac_mode = HVAC_COOL THEN nums[ATTR_COOLING_SETPOINT]
    ELSE IF hvac_mode \in {HVAC_HEAT, HVAC_HEAT_COOL}
    THEN nums[ATTR_HEATING_SETPOINT]
    ELSE NoNumber

\* The target_temperature property; hvac_mode is self.hvac_mode.
ThermostatTargetTemperature(hvac_mode, nums) ==
    IF hvac_mode = HVAC_COOL THEN nums[ATTR_COOLING_SETPOINT]
    ELSE IF hvac_mode = HVAC_HEAT THEN nums[ATTR_HEATING_SETPOINT]
    ELSE NoNumber

\* The target_temperature_high property.
ThermostatTargetTemperatureHigh(hvac_mode, nums) ==
    IF hvac_mode = HVAC_HEAT_COOL THEN nums[ATTR_COOLING_SETPOINT]
    ELSE NoNumber

\* The target_temperature_low property.
ThermostatTargetTemperatureLow(hvac_mode, nums) ==
    IF hvac_mode = HVAC_HEAT_COOL THEN nums[ATTR_HEATING_SETPOINT]
    ELSE NoNumber

(***************************************************************************)
(* SmartThingsAirConditioner.                                              *)
(***************************************************************************)
\* The hvac_mode property without its look at the switch.
AcHvacModeIgnoringSwitch(caps, st) ==
    Get(AC_MODE_TO_STATE, st[ATTR_AC_MODE])

\* The hvac_mode property.
AcHvacMode(caps, st) ==
    IF CAP_SWITCH \in caps /\ ~Switch(st) THEN HVAC_OFF
    ELSE Get(AC_MODE_TO_STATE, st[ATTR_AC_MODE])

\* The fan_mode property.
AcFanMode(caps, st) ==
    IF CAP_AC_FAN_MODE \in caps THEN st[ATTR_FAN_MODE] ELSE None

\* The swing_mode property.
AcSwingMode(caps, st) ==
    IF CAP_SWING \in caps THEN st[ATTR_SWING] ELSE None

AcSetFanModePlan(caps, fan_mode) ==
    IF CAP_AC_FAN_MODE \notin caps THEN Return
    ELSE Gather(<<SetFanMode(fan_mode)>>)

AcSetFanMode(s, fan_mode) ==
    /\ entity = "AirConditioner"
    /\ Begin(s, "set_fan_mode", [NoArgs EXCEPT !.value = fan_mode],
             AcSetFanModePlan(capabilities, fan_mode), "await")
    /\ UNCHANGED <<capabilities, assigned, entity, relevant, status, numbers,
                   lists, self_hvac_mode, self_hvac_modes, update_scheduled>>

AcTurnOnPlan(caps) ==
    IF CAP_SWITCH \notin caps THEN Return ELSE Gather(<<SwitchOn>>)

AcTurnOn(s) ==
    /\ entity = "AirConditioner"
    /\ Begin(s, "turn_on", NoArgs, AcTurnOnPlan(capabilities), "await")
    /\ UNCHANGED <<capabilities, assigned, entity, relevant, status, numbers,
                   lists, self_hvac_mode, self_hvac_modes, update_scheduled>>

AcTurnOffPlan(caps) ==
    IF CAP_SWITCH \notin caps THEN Return ELSE Gather(<<SwitchOff>>)

AcTurnOff(s) ==
    /\ entity = "AirConditioner"
    /\ Begin(s, "turn_off", NoArgs, AcTurnOffPlan(capabilities), "await")
    /\ UNCHANGED <<capabilities, assigned, entity, relevant, status, numbers,
                   lists, self_hvac_mode, self_hvac_modes, update_scheduled>>

\* async_set_hvac_mode returning when the device does not list the mode
\* (the `return` the code leaves commented out).
AcSetHvacModePlanStrict(caps, st, ls, hvac_mode) ==
    IF hvac_mode = HVAC_OFF THEN AcTurnOffPlan(caps)
    ELSE LET ac_mode == Get(STATE_TO_AC_MODE, hvac_mode)
         IN  IF ac_mode = None THEN Return
             ELSE IF ac_mode \notin Range(ls[ATTR_SUPPORTED_AC_MODES].items)
                  THEN Return
             ELSE Gather(
                    (IF ~Switch(st) /\ CAP_SWITCH \in caps
                     THEN <<SwitchOn>> ELSE <<>>)
                    \o <<SetAirConditionerMode(ac_mode)>>)

\* async_set_hvac_mode switching the device on whatever its switch says.
AcSetHvacModePlanAlwaysOn(caps, st, ls, hvac_mode) ==
    IF hvac_mode = HVAC_OFF THEN AcTurnOffPlan(caps)
    ELSE LET ac_mode == Get(STATE_TO_AC_MODE, hvac_mode)
         IN  IF ac_mode = None THEN Return
             ELSE Gather(<<SwitchOn, SetAirConditionerMode(ac_mode)>>)

\* async_set_hvac_mode up to its await.  `ac_mode not in (supported or [])`
\* raises TypeError on a value that is not iterable.
AcSetHvacModePlan(caps, st, ls, hvac_mode) ==
    IF hvac_mode = HVAC_OFF THEN AcTurnOffPlan(caps)
    ELSE LET ac_mode == Get(STATE_TO_AC_MODE, hvac_mode)
         IN  IF ac_mode = None THEN Return
             ELSE IF ls[ATTR_SUPPORTED_AC_MODES].kind = "scalar" THEN Raise
             ELSE Gather(
                    (IF ~Switch(st) /\ CAP_SWITCH \in caps
                     THEN <<SwitchOn>> ELSE <<>>)
                    \o <<SetAirConditionerMode(ac_mode)>>)

AcSetHvacMode(s, hvac_mode) ==
    /\ entity = "AirConditioner"
    /\ Begin(s, "set_hvac_mode", [NoArgs EXCEPT !.hvac_mode = hvac_mode],
             AcSetHvacModePlan(capabilities, status, lists, hvac_mode),
             "await")
    /\ UNCHANGED <<capabilities, assigned, entity, relevant, status, numbers,
                   lists, self_hvac_mode, self_hvac_modes, update_scheduled>>

\* async_set_temperature writing the setpoint of the mode, as a thermostat
\* does: the heating setpoint when the mode asked for, else the cached
\* mode, is heat.
AcSetTemperaturePlanByMode(caps, st, kwargs) ==
    LET effective == IF kwargs.hvac_mode # None THEN kwargs.hvac_mode
                     ELSE AcHvacMode(caps, st)
    IN  IF kwargs.temperature = NoNumber THEN Return
        ELSE IF effective = HVAC_HEAT
        THEN Gather(<<SetHeatingSetpoint(
                        Round(kwargs.temperature, Precision))>>)
        ELSE Gather(<<SetCoolingSetpoint(
                        Round(kwargs.temperature, Precision))>>)

\* async_set_temperature up to `if tasks:`.
AcSetTemperaturePlan(caps, st, kwargs) ==
    LET operation_mode == kwargs.hvac_mode
        ac_mode == Get(STATE_TO_AC_MODE, operation_mode)
        changing ==
            /\ operation_mode # None
            /\ operation_mode # AcHvacMode(caps, st)
            /\ ac_mode # None
        modeTasks ==
            IF ~changing THEN <<>>
            ELSE IF operation_mode = HVAC_OFF THEN <<SwitchOff>>
            ELSE (IF ~Switch(st) /\ CAP_SWITCH \in caps
                  THEN <<SwitchOn>> ELSE <<>>)
                 \o <<SetAirConditionerMode(ac_mode)>>
        target_temp ==
            IF changing /\ operation_mode = HVAC_OFF THEN NoNumber
            ELSE kwargs.temperature
        tempTasks ==
            IF target_temp # NoNumber /\ CAP_COOLING_SETPOINT \in caps
            THEN <<SetCoolingSetpoint(Round(target_temp, Precision))>>
            ELSE <<>>
        tasks == modeTasks \o tempTasks
    IN  IF tasks # <<>> THEN Gather(tasks) ELSE Return

AcSetTemperature(s, kwargs) ==
    /\ entity = "AirConditioner"
    /\ Begin(s, "set_temperature", kwargs,
             AcSetTemperaturePlan(capabilities, status, kwargs), "await")
    /\ UNCHANGED <<capabilities, assigned, entity, relevant, status, numbers,
                   lists, self_hvac_mode, self_hvac_modes, update_scheduled>>

\* async_set_swing_mode up to its await.
AcSetSwingModePlan(caps, swing_mode) ==
    IF CAP_SWING \notin caps THEN Return
    ELSE Gather(<<SetFanOscillationMode(swing_mode)>>)

AcSetSwingMode(s, swing_mode) ==
    /\ entity = "AirConditioner"
    /\ Begin(s, "set_swing_mode", [NoArgs EXCEPT !.value = swing_mode],
             AcSetSwingModePlan(capabilities, swing_mode), "await_swing")
    /\ UNCHANGED <<capabilities, assigned, entity, relevant, status, numbers,
                   lists, self_hvac_mode, self_hvac_modes, update_scheduled>>

\* async_set_swing_mode after its await: an exception is caught; only a
\* truthy result updates the attribute and writes the state.
AcSetSwingModeResume(s) ==
    /\ calls[s].pc = "await_swing"
    /\ AllDone(calls[s])
    /\ LET result == calls[s].outcome[1] = "true"
       IN  /\ status' = IF result
                        THEN [status EXCEPT
                                ![ATTR_SWING] = calls[s].args.value]
                        ELSE status
           /\ calls' = [calls EXCEPT ![s].pc = "returned",
                                     ![s].published = result]
    /\ UNCHANGED <<capabilities, assigned, entity, relevant, numbers, lists,
                   self_hvac_mode, self_hvac_modes, update_scheduled>>

\* async_update starting from the empty set, as the thermostat's does.
AcUpdatedWithoutOff(ls) ==
    LET supported_ac_modes == ls[ATTR_SUPPORTED_AC_MODES]
    IN  ModesOf(IF supported_ac_modes.kind = "list"
                THEN Translated(AC_MODE_TO_STATE, supported_ac_modes.items)
                ELSE {})

\* SmartThingsAirConditioner.async_update: the new _hvac_modes.
AcUpdated(ls) ==
    LET supported_ac_modes == ls[ATTR_SUPPORTED_AC_MODES]
    IN  ModesOf({HVAC_OFF} \cup
                (IF supported_ac_modes.kind = "list"
                 THEN Translated(AC_MODE_TO_STATE, supported_ac_modes.items)
                 ELSE {}))

AcUpdate ==
    /\ entity = "AirConditioner"
    /\ self_hvac_modes' = AcUpdated(lists)
    /\ update_scheduled' = FALSE
    /\ UNCHANGED <<capabilities, assigned, entity, relevant, status, numbers,
                   lists, self_hvac_mode, calls>>

(***************************************************************************)
(* SmartThingsAirConditioner.async_set_preset_mode.                        *)
(***************************************************************************)
\* The model the special handling is for.
ARTIK051_KRAC_18K == "ARTIK051_KRAC_18K"

\* str.lower() on the preset names the model uses; a name in lower case
\* already is its own image.
LowerTable ==
    [n \in {"Quiet", "QUIET", "Comfort", "Fast Turbo", "2-Step", "WindFree",
            "windFree", "Sleep"} |->
        CASE n = "Quiet" -> "quiet"
          [] n = "QUIET" -> "quiet"
          [] n = "Comfort" -> "comfort"
          [] n = "Fast Turbo" -> "fast turbo"
          [] n = "2-Step" -> "2-step"
          [] n = "WindFree" -> "windfree"
          [] n = "windFree" -> "windfree"
          [] n = "Sleep" -> "sleep"]
Lower(name) == IF name \in DOMAIN LowerTable THEN LowerTable[name] ELSE name

\* The if/elif chain on preset_mode_lower: command_options[0], or None.
CommandOptions ==
    [n \in {"fast turbo", "comfort", "quiet", "2-step"} |->
        CASE n = "fast turbo" -> "Comode_Speed"
          [] n = "comfort" -> "Comode_Comfort"
          [] n = "quiet" -> "Comode_Quiet"
          [] n = "2-step" -> "Comode_2Step"]

\* model.value.split("|")[0], "unknown" without an mnmo attribute.  A present
\* attribute whose value is None has no split(): AttributeError.
ModelRaises(ls) == ls[ATTR_MNMO].kind = "None"
ModelOf(ls) ==
    IF ls[ATTR_MNMO].kind = "str" THEN ls[ATTR_MNMO].items[1] ELSE "unknown"

\* The special command looked up without lower-casing the preset.
SpecialOptionCaseSensitive(ls, preset_mode) ==
    IF ModelOf(ls) = ARTIK051_KRAC_18K
    THEN Get(CommandOptions, preset_mode)
    ELSE None

\* The special command of the call, or None when the standard command is
\* the one to use.
SpecialOption(ls, preset_mode) ==
    IF ModelOf(ls) = ARTIK051_KRAC_18K
    THEN Get(CommandOptions, Lower(preset_mode))
    ELSE None

\* `if result is not None:` then update_attribute_value("acOptionalMode", ..).
\* result is the transport's answer ("true"/"false"), or False ("false")
\* after an exception or without the capability.
PresetCached(st, result, preset_mode) ==
    IF result # None THEN [st EXCEPT ![ATTR_PRESET] = preset_mode] ELSE st

\* The standard path: `if not mode_set:` up to its await, or to the end of
\* the coroutine when the capability is missing.
PresetStandardPlan(caps, preset_mode) ==
    IF CAP_PRESET \in caps THEN Gather(<<SetAcOptionalMode(preset_mode)>>)
    ELSE Return

\* async_set_preset_mode up to its first await.
PresetPlan(caps, ls, preset_mode) ==
    IF ModelRaises(ls) THEN Raise
    ELSE IF SpecialOption(ls, preset_mode) # None
         THEN Gather(<<Execute(SpecialOption(ls, preset_mode))>>)
         ELSE PresetStandardPlan(caps, preset_mode)

\* The coroutine ends: the attribute is cached according to result and the
\* state is written.
PresetEnd(s, c, result) ==
    /\ calls' = [calls EXCEPT ![s] = [c EXCEPT !.pc = "returned",
                                               !.published = TRUE]]
    /\ status' = PresetCached(status, result, c.args.value)

AcSetPresetMode(s, preset_mode) ==
    /\ entity = "AirConditioner"
    /\ Free(calls[s])
    /\ LET plan == PresetPlan(capabilities, lists, preset_mode)
           args == [NoArgs EXCEPT !.value = preset_mode]
           special == SpecialOption(lists, preset_mode) # None
       IN  CASE plan.kind = "raise" ->
                    /\ calls' = [calls EXCEPT ![s] =
                            [Refused("set_preset_mode", args)
                                EXCEPT !.pc = "raised"]]
                    /\ UNCHANGED status
                [] plan.kind = "gather" ->
                    /\ calls' = [calls EXCEPT ![s] =
                            Started("set_preset_mode", args, plan.tasks,
                                    IF special THEN "await_execute"
                                    ELSE "await_command")]
                    /\ UNCHANGED status
                [] plan.kind = "return" ->
                    PresetEnd(s, Refused("set_preset_mode", args), "false")
    /\ UNCHANGED <<capabilities, assigned, entity, relevant, numbers, lists,
                   self_hvac_mode, self_hvac_modes, update_scheduled>>

\* After `await self._device.execute(...)`: a result sets mode_set and ends
\* the coroutine; an exception is caught, mode_set stays False and the
\* standard path runs.
AcSetPresetModeAfterExecute(s) ==
    /\ calls[s].pc = "await_execute"
    /\ AllDone(calls[s])
    /\ LET c == calls[s]
           mode_set == c.outcome[1] # "raise"
           plan == PresetStandardPlan(capabilities, c.args.value)
       IN  IF mode_set
           THEN PresetEnd(s, c, c.outcome[1])
           ELSE IF plan.kind = "gather"
           THEN /\ calls' = [calls EXCEPT ![s] =
                        [c EXCEPT !.pc = "await_command",
                                  !.issued = c.issued \o plan.tasks,
                                  !.outcome = c.outcome \o <<Pending>>]]
                /\ UNCHANGED status
           ELSE PresetEnd(s, c, "false")
    /\ UNCHANGED <<capabilities, assigned, entity, relevant, numbers, lists,
                   self_hvac_mode, self_hvac_modes, update_scheduled>>

\* After `await self._device.command(...)`: an exception is caught and
\* result is False.
AcSetPresetModeAfterCommand(s) ==
    /\ calls[s].pc = "await_command"
    /\ AllDone(calls[s])
    /\ LET c == calls[s]
           last == c.outcome[Len(c.outcome)]
       IN  PresetEnd(s, c, IF last = "raise" THEN "false" ELSE last)
    /\ UNCHANGED <<capabilities, assigned, entity, relevant, numbers, lists,
                   self_hvac_mode, self_hvac_modes, update_scheduled>>

(***************************************************************************)
(* SmartThingsAirConditioner.preset_modes.                                 *)
(***************************************************************************)
\* list.remove(x): the list without the first x.
RemoveFirst(seq, x) ==
    LET i == CHOOSE k \in 1..Len(seq) :
                seq[k] = x /\ \A j \in 1..(k - 1) : seq[j] # x
    IN  SubSeq(seq, 1, i - 1) \o SubSeq(seq, i + 1, Len(seq))

\* The modes the special model is given when the device does not list them.
DesiredModes == <<"WindFree", "2-Step", "Fast Turbo", "Comfort", "Quiet">>

\* restricted_values
RestrictedValues == {"windFree"}

\* preset_modes comparing the restricted names without lower-casing them.
PresetModesCaseSensitive(ls, st) ==
    LET modes_attr == ls[ATTR_SUPPORTED_PRESETS]
        reported ==
            IF modes_attr.kind = "list" /\ modes_attr.items # <<"off">>
            THEN modes_attr.items ELSE <<>>
    IN  IF st[ATTR_AC_MODE] \in {"auto", "heat"}
        THEN SelectSeq(reported, LAMBDA mode : mode \notin RestrictedValues)
        ELSE reported

\* The preset_modes property.
PresetModes(ls, st) ==
    LET modes_attr == ls[ATTR_SUPPORTED_PRESETS]
        reported ==
            IF modes_attr.kind = "list" /\ modes_attr.items # <<"off">>
            THEN modes_attr.items ELSE <<>>
        existing_modes_lower == {Lower(mode) : mode \in Range(reported)}
        extended ==
            IF ModelOf(ls) = ARTIK051_KRAC_18K
            THEN reported \o
                 SelectSeq(DesiredModes,
                           LAMBDA mode : Lower(mode) \notin existing_modes_lower)
            ELSE reported
        supported_ac_optional_modes ==
            IF Len(extended) > 1 /\ "off" \in Range(extended)
            THEN RemoveFirst(extended, "off") ELSE extended
    IN  IF st[ATTR_AC_MODE] \in {"auto", "heat"}
        THEN SelectSeq(supported_ac_optional_modes,
                       LAMBDA mode :
                            \A restricted \in RestrictedValues :
                                Lower(restricted) # Lower(mode))
        ELSE supported_ac_optional_modes

\* preset_modes appending to and removing from the device's own list.
PresetModesLeavesInPlace(ls, st) ==
    IF ls[ATTR_SUPPORTED_PRESETS].kind = "list"
    THEN ListOf(PresetModes(ls, st))
    ELSE ls[ATTR_SUPPORTED_PRESETS]

\* supportedAcOptionalMode once preset_modes has returned: the property
\* builds a new list, [str(x) for x in modes_attr.value], and appends to and
\* removes from that one.
PresetModesLeaves(ls, st) == ls[ATTR_SUPPORTED_PRESETS]

\* The host reads preset_modes.
PresetModesRead ==
    /\ entity = "AirConditioner"
    /\ lists' = [lists EXCEPT
                    ![ATTR_SUPPORTED_PRESETS] = PresetModesLeaves(lists, status)]
    /\ UNCHANGED <<capabilities, assigned, entity, relevant, status, numbers,
                   self_hvac_mode, self_hvac_modes, calls, update_scheduled>>

(***************************************************************************)
(* Initial states.                                                         *)
(***************************************************************************)
NoStatus == [a \in StringAttributes |-> None]
NoNumbers == [a \in NumberAttributes |-> NoNumber]
NoLists ==
    [a \in ListAttributes |-> IF a = ATTR_MNMO THEN Absent ELSE NoneList]

\* No coroutine of the entity has run.
Quiet ==
    /\ calls = [s \in Slots |-> IdleCall]
    /\ update_scheduled = FALSE

\* __init__ of either class: _hvac_mode = None; _hvac_modes = None
\* (SmartThingsThermostat) or [] (SmartThingsAirConditioner).
Constructed ==
    /\ self_hvac_mode = None
    /\ self_hvac_modes = IF entity = "AirConditioner" THEN ModesOf({})
                         ELSE NoModes

\* Every capability the model gives a device.
Capabilities == Range(Supported) \cup {CAP_OTHER}

\* Before the platform is set up, for any device.
InitSetup ==
    /\ capabilities \in SUBSET Capabilities
    /\ assigned \in BOOLEAN
    /\ entity = "unset"
    /\ relevant = Unset
    /\ status = NoStatus
    /\ numbers = NoNumbers
    /\ lists = NoLists
    /\ Constructed
    /\ Quiet

NextSetup == async_setup_entry \/ get_capabilities

SpecSetup == InitSetup /\ [][NextSetup]_vars

(***************************************************************************)
(* A thermostat and the service calls on it, one at a time.                *)
(***************************************************************************)
\* The devices: the four thermostat capabilities, the same with a fan mode,
\* and the legacy capability alone.
ThermostatDevices ==
    {Range(SetupThermostatCapabilities),
     Range(SetupThermostatCapabilities) \cup {CAP_THERMOSTAT_FAN_MODE},
     {CAP_THERMOSTAT}}

\* thermostatMode as the device reports it; "energy" is in no table.
ThermostatModeTokens == {None, "heat", "cool", "auto", "energy"}

ThermostatFanModes == {"on", "circulate"}
\* The modes asked of set_hvac_mode; dry and auto have no vendor token.
ThermostatModes ==
    {HVAC_HEAT, HVAC_COOL, HVAC_HEAT_COOL, HVAC_OFF, HVAC_DRY, HVAC_AUTO}

\* The entity as async_setup_entry builds it for the device.
SetUp ==
    /\ assigned = TRUE
    /\ entity = SetupEntityFor(capabilities, assigned)
    /\ relevant = GetCapabilities(capabilities)
    /\ Constructed
    /\ Quiet

InitThermostat ==
    /\ capabilities \in ThermostatDevices
    /\ SetUp
    /\ \E mode \in ThermostatModeTokens :
            status = [NoStatus EXCEPT ![ATTR_THERMOSTAT_MODE] = mode]
    /\ numbers = NoNumbers
    /\ lists \in {NoLists,
                  [NoLists EXCEPT ![ATTR_SUPPORTED_THERMOSTAT_MODES] =
                        ListOf(<<"heat", "cool", "energy">>)]}

\* The transport answers one of the (at most three) commands of a coroutine.
Transport(s) == \E i \in 1..3, o \in Outcomes : Complete(s, i, o)

NextThermostat ==
    \/ ThermostatUpdate
    \/ \E fan_mode \in ThermostatFanModes : ThermostatSetFanMode(1, fan_mode)
    \/ \E hvac_mode \in ThermostatModes : ThermostatSetHvacMode(1, hvac_mode)
    \/ Transport(1)
    \/ ResumeRaised(1)
    \/ ResumeDone(1)

SpecThermostat == InitThermostat /\ [][NextThermostat]_vars

(***************************************************************************)
(* set_temperature on a thermostat, one call at a time.                    *)
(***************************************************************************)
\* Temperatures of the calls: 21.5, and 24.0006 (which rounds to 24.001).
Temperatures == {215000, 240006}

\* The keyword arguments of set_temperature: a single temperature, or
\* bounds, or both, with or without a mode.
ThermostatTemperatureArgs ==
    LET modes == {None, HVAC_HEAT, HVAC_COOL, HVAC_HEAT_COOL}
    IN  {Args(m, t, NoNumber, NoNumber, None) :
            m \in modes, t \in {NoNumber} \cup Temperatures}
        \cup
        {Args(m, NoNumber, lo, hi, None) :
            m \in modes, lo \in {NoNumber, 180000}, hi \in {NoNumber, 240000}}
        \cup
        {Args(m, 215000, 180000, NoNumber, None) : m \in modes}

InitThermostatTemperature ==
    /\ capabilities = Range(SetupThermostatCapabilities)
    /\ SetUp
    /\ \E mode \in {None, "heat", "cool", "auto"} :
            status = [NoStatus EXCEPT ![ATTR_THERMOSTAT_MODE] = mode]
    /\ numbers = NoNumbers
    /\ lists = NoLists

NextThermostatTemperature ==
    \/ ThermostatUpdate
    \/ \E kwargs \in ThermostatTemperatureArgs :
            ThermostatSetTemperature(1, kwargs)
    \/ Transport(1)
    \/ ResumeRaised(1)
    \/ ResumeDone(1)

SpecThermostatTemperature ==
    InitThermostatTemperature /\ [][NextThermostatTemperature]_vars

(***************************************************************************)
(* The power and the mode of an air conditioner, one call at a time.       *)
(***************************************************************************)
\* The devices: the five capabilities of an air conditioner, and the same
\* with what makes a thermostat as well.
AcDevices ==
    {Range(SetupAcCapabilities),
     Range(SetupAcCapabilities) \cup Range(SetupThermostatCapabilities)}

\* airConditionerMode as the device reports it; "turbo" is in no table.
AcModeTokens == {None, "cool", "heat", "auto", "coolClean", "turbo"}
\* switch as the device reports it.
SwitchValues == {None, "on", "off"}
\* supportedAcModes as the device reports it.
SupportedAcModes == {NoneList, ListOf(<<"cool", "dry", "turbo">>)}

InitAirConditioner ==
    /\ capabilities \in AcDevices
    /\ SetUp
    /\ \E mode \in AcModeTokens, switch \in SwitchValues :
            status = [NoStatus EXCEPT ![ATTR_AC_MODE] = mode,
                                      ![ATTR_SWITCH] = switch]
    /\ numbers = NoNumbers
    /\ \E supported \in SupportedAcModes :
            lists = [NoLists EXCEPT ![ATTR_SUPPORTED_AC_MODES] = supported]

NextAirConditioner ==
    \/ AcUpdate
    \/ \E hvac_mode \in HVACMode : AcSetHvacMode(1, hvac_mode)
    \/ AcTurnOn(1)
    \/ AcTurnOff(1)
    \/ Transport(1)
    \/ ResumeRaised(1)
    \/ ResumeDone(1)

SpecAirConditioner == InitAirConditioner /\ [][NextAirConditioner]_vars

(***************************************************************************)
(* set_temperature on an air conditioner, one call at a time.              *)
(***************************************************************************)
\* The keyword arguments of set_temperature: a temperature or none, with
\* any mode or none.
AcTemperatureArgs ==
    {Args(m, t, NoNumber, NoNumber, None) :
        m \in {None} \cup HVACMode, t \in {NoNumber} \cup Temperatures}

InitAcTemperature ==
    /\ capabilities \in AcDevices
    /\ SetUp
    /\ \E mode \in {None, "cool", "heat"}, switch \in SwitchValues :
            status = [NoStatus EXCEPT ![ATTR_AC_MODE] = mode,
                                      ![ATTR_SWITCH] = switch]
    /\ numbers = NoNumbers
    /\ lists = NoLists

NextAcTemperature ==
    \/ \E kwargs \in AcTemperatureArgs : AcSetTemperature(1, kwargs)
    \/ Transport(1)
    \/ ResumeRaised(1)
    \/ ResumeDone(1)

SpecAcTemperature == InitAcTemperature /\ [][NextAcTemperature]_vars

(***************************************************************************)
(* The fan, swing and preset modes of an air conditioner, one call at a    *)
(* time.                                                                   *)
(***************************************************************************)
\* The devices: an air conditioner with or without the swing, preset and
\* execute capabilities.
PresetDevices ==
    {Range(SetupAcCapabilities) \cup extra :
        extra \in SUBSET {CAP_SWING, CAP_PRESET, CAP_EXECUTE}}

\* mnmo as the device reports it: none, a null value, the model with the
\* special handling, another model.
Models ==
    {Absent, NoneList, StringOf(<<ARTIK051_KRAC_18K, "10193441">>),
     StringOf(<<"TP6X_RAC_16K">>)}

\* The preset names of the calls.
PresetNames == {"Quiet", "2-step", "windFree", "Sleep"}
AcFanModes == {"high"}
SwingModes == {"vertical"}

InitPreset ==
    /\ capabilities \in PresetDevices
    /\ SetUp
    /\ status = [NoStatus EXCEPT ![ATTR_AC_MODE] = "cool",
                                 ![ATTR_SWITCH] = "on"]
    /\ numbers = NoNumbers
    /\ \E model \in Models : lists = [NoLists EXCEPT ![ATTR_MNMO] = model]

NextPreset ==
    \/ \E preset_mode \in PresetNames : AcSetPresetMode(1, preset_mode)
    \/ AcSetPresetModeAfterExecute(1)
    \/ AcSetPresetModeAfterCommand(1)
    \/ \E swing_mode \in SwingModes : AcSetSwingMode(1, swing_mode)
    \/ AcSetSwingModeResume(1)
    \/ \E fan_mode \in AcFanModes : AcSetFanMode(1, fan_mode)
    \/ AcTurnOn(1)
    \/ AcTurnOff(1)
    \/ Transport(1)
    \/ ResumeRaised(1)
    \/ ResumeDone(1)

SpecPreset == InitPreset /\ [][NextPreset]_vars

(***************************************************************************)
(* The presets an air conditioner offers while its mode changes.           *)
(***************************************************************************)
\* supportedAcOptionalMode as the device reports it.
SupportedPresets ==
    {NoneList, Scalar, ListOf(<<"off">>),
     ListOf(<<"off", "windFree", "sleep">>), ListOf(<<"WindFree">>),
     ListOf(<<"sleep", "quiet">>)}

InitPresetModes ==
    /\ capabilities \in {Range(SetupAcCapabilities),
                         Range(SetupAcCapabilities) \cup {CAP_PRESET}}
    /\ SetUp
    /\ \E mode \in {None, "cool", "auto", "heat", "heatClean"},
          switch \in {"on", "off"} :
            status = [NoStatus EXCEPT ![ATTR_AC_MODE] = mode,
                                      ![ATTR_SWITCH] = switch]
    /\ numbers = NoNumbers
    /\ \E model \in Models \ {NoneList}, presets \in SupportedPresets :
            lists = [NoLists EXCEPT ![ATTR_MNMO] = model,
                                    ![ATTR_SUPPORTED_PRESETS] = presets]

NextPresetModes ==
    \/ \E hvac_mode \in {HVAC_HEAT, HVAC_COOL, HVAC_HEAT_COOL, HVAC_DRY} :
            AcSetHvacMode(1, hvac_mode)
    \/ Transport(1)
    \/ ResumeRaised(1)
    \/ ResumeDone(1)

SpecPresetModes == InitPresetModes /\ [][NextPresetModes]_vars

(***************************************************************************)
(* The mode of either entity: the device reports, the entity refreshes,    *)
(* the host sets the mode, one call at a time.                             *)
(***************************************************************************)
\* The attribute that holds the vendor mode of the entity.
ModeAttribute ==
    IF entity = "Thermostat" THEN ATTR_THERMOSTAT_MODE ELSE ATTR_AC_MODE
\* The attribute that holds the vendor modes the device supports.
SupportedModesAttribute ==
    IF entity = "Thermostat" THEN ATTR_SUPPORTED_THERMOSTAT_MODES
    ELSE ATTR_SUPPORTED_AC_MODES

\* Vendor modes the device reports; "energy" is in neither table.
ReportedModes == {None, "heat", "energy"}
\* Supported modes the device reports: none, an empty list, a list with an
\* entry no table has.
ReportedSupportedModes ==
    {NoneList, ListOf(<<>>), ListOf(<<"heat", "off", "energy">>)}

InitModes ==
    /\ capabilities \in {Range(SetupThermostatCapabilities),
                         Range(SetupAcCapabilities)}
    /\ SetUp
    /\ \E mode \in ReportedModes, switch \in {"on", "off"} :
            status = [NoStatus EXCEPT
                        ![ModeAttribute] = mode,
                        ![ATTR_SWITCH] = IF entity = "AirConditioner"
                                         THEN switch ELSE None]
    /\ numbers = NoNumbers
    /\ \E supported \in ReportedSupportedModes :
            lists = [NoLists EXCEPT ![SupportedModesAttribute] = supported]

\* The device reports a new vendor mode: the attribute of device.status
\* takes the value of the event.
ModeReported ==
    /\ \E mode \in ReportedModes :
            /\ mode # status[ModeAttribute]
            /\ status' = [status EXCEPT ![ModeAttribute] = mode]
    /\ UNCHANGED <<capabilities, assigned, entity, relevant, numbers, lists,
                   self_hvac_mode, self_hvac_modes, calls, update_scheduled>>

\* The device reports new supported modes.
SupportedModesReported ==
    /\ \E supported \in ReportedSupportedModes :
            /\ supported # lists[SupportedModesAttribute]
            /\ lists' = [lists EXCEPT ![SupportedModesAttribute] = supported]
    /\ UNCHANGED <<capabilities, assigned, entity, relevant, status, numbers,
                   self_hvac_mode, self_hvac_modes, calls, update_scheduled>>

NextModes ==
    \/ ModeReported
    \/ SupportedModesReported
    \/ ThermostatUpdate
    \/ AcUpdate
    \/ \E hvac_mode \in HVACMode : ThermostatSetHvacMode(1, hvac_mode)
    \/ \E hvac_mode \in HVACMode : AcSetHvacMode(1, hvac_mode)
    \/ Transport(1)
    \/ ResumeRaised(1)
    \/ ResumeDone(1)

SpecModes == InitModes /\ [][NextModes]_vars

(***************************************************************************)
(* Two service calls on an air conditioner at a time: each coroutine runs  *)
(* up to its await, and the event loop runs the other while it waits.      *)
(***************************************************************************)
InitConcurrent ==
    /\ capabilities = Range(SetupAcCapabilities)
    /\ SetUp
    /\ \E mode \in {"cool", "heat"}, switch \in {"on", "off"} :
            status = [NoStatus EXCEPT ![ATTR_AC_MODE] = mode,
                                      ![ATTR_SWITCH] = switch]
    /\ numbers = NoNumbers
    /\ lists = NoLists

NextConcurrent ==
    \E s \in Slots :
        \/ \E hvac_mode \in {HVAC_HEAT, HVAC_COOL} :
                AcSetHvacMode(s, hvac_mode)
        \/ AcTurnOff(s)
        \/ Transport(s)
        \/ ResumeRaised(s)
        \/ ResumeDone(s)

SpecConcurrent == InitConcurrent /\ [][NextConcurrent]_vars

(***************************************************************************)
(* The refresh of either entity while the device reports its modes.        *)
(***************************************************************************)
\* Supported modes the device reports: none, an empty list, a list of
\* entries no table has, lists with entries the tables have, and a value
\* that is not iterable.
RefreshSupportedModes ==
    {NoneList, ListOf(<<>>), ListOf(<<"energy", "turbo">>),
     ListOf(<<"cool", "heat", "energy">>), ListOf(<<"off", "cool">>), Scalar}

InitRefresh ==
    /\ capabilities \in {Range(SetupThermostatCapabilities),
                         Range(SetupAcCapabilities)}
    /\ SetUp
    /\ \E mode \in ReportedModes :
            status = [NoStatus EXCEPT ![ModeAttribute] = mode]
    /\ numbers = NoNumbers
    /\ \E supported \in RefreshSupportedModes :
            lists = [NoLists EXCEPT ![SupportedModesAttribute] = supported]

\* The device reports new supported modes.
SupportedModesChanged ==
    /\ \E supported \in RefreshSupportedModes :
            /\ supported # lists[SupportedModesAttribute]
            /\ lists' = [lists EXCEPT ![SupportedModesAttribute] = supported]
    /\ UNCHANGED <<capabilities, assigned, entity, relevant, status, numbers,
                   self_hvac_mode, self_hvac_modes, calls, update_scheduled>>

NextRefresh ==
    \/ ModeReported
    \/ SupportedModesChanged
    \/ ThermostatUpdate
    \/ AcUpdate

SpecRefresh == InitRefresh /\ [][NextRefresh]_vars

(***************************************************************************)
(* The host refreshes either entity and reads its properties; the device   *)
(* reports nothing and no service is called.                               *)
(***************************************************************************)
InitReads ==
    /\ capabilities \in {Range(SetupThermostatCapabilities),
                         Range(SetupAcCapabilities),
                         Range(SetupAcCapabilities) \cup {CAP_PRESET}}
    /\ SetUp
    /\ \E mode \in {None, "heat", "auto", "energy"}, switch \in {"on", "off"} :
            status = [NoStatus EXCEPT
                        ![ModeAttribute] = mode,
                        ![ATTR_SWITCH] = IF entity = "AirConditioner"
                                         THEN switch ELSE None]
    /\ numbers = NoNumbers
    /\ \E supported \in RefreshSupportedModes,
          presets \in SupportedPresets,
          model \in {Absent, StringOf(<<ARTIK051_KRAC_18K, "10193441">>)} :
            lists = [NoLists EXCEPT
                        ![SupportedModesAttribute] = supported,
                        ![ATTR_SUPPORTED_PRESETS] =
                            IF entity = "AirConditioner" THEN presets
                            ELSE NoneList,
                        ![ATTR_MNMO] =
                            IF entity = "AirConditioner" THEN model
                            ELSE Absent]

NextReads ==
    \/ ThermostatUpdate
    \/ AcUpdate
    \/ PresetModesRead

SpecReads == InitReads /\ [][NextReads]_vars

(***************************************************************************)
(* The measurements of either entity while the device reports them.        *)
(***************************************************************************)
\* The devices: a thermostat by its four capabilities, a thermostat by the
\* legacy capability alone or with a temperature measurement, an air
\* conditioner; each with and without a humidity measurement.
MeasuredDevices ==
    LET plain == {Range(SetupThermostatCapabilities),
                  {CAP_THERMOSTAT},
                  {CAP_THERMOSTAT, CAP_TEMPERATURE},
                  Range(SetupAcCapabilities)}
    IN  plain \cup {caps \cup {CAP_HUMIDITY} : caps \in plain}

\* Temperatures the device reports: 0.0, 21.5, 24.0006.
ReportedTemperatures == {0} \cup Temperatures
\* Humidities the device reports, in percent.
ReportedHumidities == {0, 40, 55}

InitMeasurements ==
    /\ capabilities \in MeasuredDevices
    /\ SetUp
    /\ status = NoStatus
    /\ numbers = NoNumbers
    /\ lists = NoLists

\* The device reports a temperature.
TemperatureReported ==
    /\ \E t \in ReportedTemperatures :
            /\ t # numbers[ATTR_TEMPERATURE_VALUE]
            /\ numbers' = [numbers EXCEPT ![ATTR_TEMPERATURE_VALUE] = t]
    /\ UNCHANGED <<capabilities, assigned, entity, relevant, status, lists,
                   self_hvac_mode, self_hvac_modes, calls, update_scheduled>>

\* The device reports a humidity.
HumidityReported ==
    /\ \E h \in ReportedHumidities :
            /\ h # numbers[ATTR_HUMIDITY]
            /\ numbers' = [numbers EXCEPT ![ATTR_HUMIDITY] = h]
    /\ UNCHANGED <<capabilities, assigned, entity, relevant, status, lists,
                   self_hvac_mode, self_hvac_modes, calls, update_scheduled>>

NextMeasurements == TemperatureReported \/ HumidityReported

SpecMeasurements == InitMeasurements /\ [][NextMeasurements]_vars

(***************************************************************************)
(* Properties.                                                             *)
(***************************************************************************)
\* The minimum set of an air conditioner: mode, switch, temperature
\* measurement and cooling setpoint.
AcMinimumSet ==
    {CAP_AC_MODE, CAP_SWITCH, CAP_TEMPERATURE, CAP_COOLING_SETPOINT}

\* The thermostat test: the legacy capability, or temperature measurement,
\* both setpoints and the thermostat mode.
ThermostatTest(caps) ==
    \/ CAP_THERMOSTAT \in caps
    \/ {CAP_TEMPERATURE, CAP_COOLING_SETPOINT, CAP_HEATING_SETPOINT,
        CAP_THERMOSTAT_MODE} \subseteq caps

\* A step in which a coroutine starts in slot s.
BeginStep(s) == Free(calls[s]) /\ calls'[s] # calls[s]

\* Every command of the coroutine got a truthy answer.
AllTrue(c) == \A i \in 1..Len(c.outcome) : c.outcome[i] = "true"

\* C1: once the platform is set up, a device assigned to it whose
\* capabilities contain the air conditioner minimum set (fan mode not
\* required) has an AirConditioner entity.
C1_MinimumSetMakesAirConditioner ==
    (entity # "unset" /\ assigned /\ AcMinimumSet \subseteq capabilities)
        => entity = "AirConditioner"

\* C2: for a device that passes neither the air conditioner minimum set nor
\* the thermostat test, setup builds no entity and get_capabilities returns
\* None.
C2_NeitherTestNoEntity ==
    (~(AcMinimumSet \subseteq capabilities) /\ ~ThermostatTest(capabilities))
        => /\ entity \in {"unset", "none"}
           /\ relevant \in {Unset, NoneList}

\* C2 witness: a device one capability short of an air conditioner, set up
\* and asked for its capabilities.
C2_Witness ==
    /\ capabilities = {CAP_AC_MODE, CAP_AC_FAN_MODE, CAP_SWITCH,
                       CAP_TEMPERATURE, CAP_HUMIDITY}
    /\ assigned
    /\ entity = "none"
    /\ relevant = NoneList

\* C3: no command is handed to the transport for a capability the device
\* does not declare.
C3_CommandsOnlyForDeclaredCapabilities ==
    \A s \in Slots : \A i \in 1..Len(calls[s].issued) :
        calls[s].issued[i].capability \in capabilities

\* The capability a mutator of the air conditioner is guarded by.
NeededCapability(op) ==
    CASE op = "set_fan_mode" -> CAP_AC_FAN_MODE
      [] op = "set_swing_mode" -> CAP_SWING
      [] op = "set_preset_mode" -> CAP_PRESET
      [] op = "turn_on" -> CAP_SWITCH
      [] op = "turn_off" -> CAP_SWITCH
      [] OTHER -> None

\* C4: a step of set fan mode, set swing mode, set preset mode, turn on or
\* turn off on an air conditioner without the capability the mutator needs
\* sends no command and changes no attribute.
C4_AbsentCapabilityIsNoOp ==
    [][\A s \in Slots :
        (/\ entity = "AirConditioner"
         /\ calls'[s] # calls[s]
         /\ NeededCapability(calls'[s].op) # None
         /\ NeededCapability(calls'[s].op) \notin capabilities)
            => /\ calls'[s].issued = <<>>
               /\ status' = status]_vars

\* C5: while the switch attribute of an air conditioner is not on, its
\* hvac_mode is off, whatever airConditionerMode holds.
C5_SwitchOffMeansOff ==
    (entity = "AirConditioner" /\ status[ATTR_SWITCH] # "on")
        => AcHvacMode(capabilities, status) = HVAC_OFF

\* C5 witness: turned off while the mode attribute says cool.
C5_Witness ==
    /\ entity = "AirConditioner"
    /\ calls[1].op = "turn_off"
    /\ calls[1].pc = "returned"
    /\ status[ATTR_SWITCH] = "off"
    /\ status[ATTR_AC_MODE] = "cool"

\* A set_preset_mode call on the model with the special handling, for a
\* preset of the special table (compared in lower case).
SpecialCall(c) ==
    /\ entity = "AirConditioner"
    /\ c.op = "set_preset_mode"
    /\ c.pc # "raised"
    /\ lists[ATTR_MNMO].kind = "str"
    /\ lists[ATTR_MNMO].items[1] = "ARTIK051_KRAC_18K"
    /\ Lower(c.args.value) \in {"fast turbo", "comfort", "quiet", "2-step"}

C7_PresetCachedIffDispatched ==
    [][\A s \in Slots :
        (/\ entity = "AirConditioner"
         /\ calls'[s] # calls[s]
         /\ calls'[s].op = "set_preset_mode")
            => /\ AnyRaised(calls'[s]) => calls'[s].pc # "raised"
               /\ calls'[s].pc = "returned"
                    => IF calls'[s].issued # <<>>
                       THEN status'[ATTR_PRESET] = calls'[s].args.value
                       ELSE status'[ATTR_PRESET] = status[ATTR_PRESET]]_vars

\* C8: a mutator never ends with an exception when a command of it raised
\* in the transport.
C8_TransportErrorsAreCaught ==
    \A s \in Slots : AnyRaised(calls[s]) => calls[s].pc # "raised"

\* C9: with every command answered truthy, turn_off and set_hvac_mode(off)
\* leave hvac_mode off, and set_hvac_mode(m) leaves hvac_mode m for heat,
\* cool, heat_cool, dry and fan_only, from any mode and whatever
\* supportedAcModes lists.
C9_ModeStateMachine ==
    \A s \in Slots :
        LET c == calls[s]
            hvac_mode == AcHvacMode(capabilities, status)
        IN  (entity = "AirConditioner" /\ Free(c) /\ c.pc # "idle"
                /\ AllTrue(c))
            => /\ c.op = "turn_off" => c.pc = "returned" /\ hvac_mode = HVAC_OFF
               /\ (c.op = "set_hvac_mode" /\ c.args.hvac_mode = HVAC_OFF)
                    => c.pc = "returned" /\ hvac_mode = HVAC_OFF
               /\ (c.op = "set_hvac_mode"
                    /\ c.args.hvac_mode \in {HVAC_HEAT, HVAC_COOL,
                            HVAC_HEAT_COOL, HVAC_DRY, HVAC_FAN_ONLY})
                    => c.pc = "returned" /\ hvac_mode = c.args.hvac_mode

\* C9 witness: from a switched-off device, set_hvac_mode(heat) returned with
\* heat absent from supportedAcModes.
C9_Witness ==
    /\ entity = "AirConditioner"
    /\ calls[1].op = "set_hvac_mode"
    /\ calls[1].args.hvac_mode = HVAC_HEAT
    /\ calls[1].pc = "returned"
    /\ calls[1].issued = <<SwitchOn, SetAirConditionerMode("heat")>>
    /\ AllTrue(calls[1])
    /\ lists[ATTR_SUPPORTED_AC_MODES] = ListOf(<<"cool", "dry", "turbo">>)
    /\ AcHvacMode(capabilities, status) = HVAC_HEAT

\* C10: set_temperature on a thermostat with a temperature and neither a
\* mode nor bounds sends exactly one command, chosen by the cached mode:
\* in heat the heating setpoint, in cool the cooling setpoint, each with the
\* temperature rounded to three decimals (the temperature itself when it has
\* no more than three); no other command is added later in the call.
C10_SingleSetpointByCachedMode ==
    [][\A s \in Slots :
        LET c == calls'[s]
            t == c.args.temperature
        IN  (/\ entity = "Thermostat"
             /\ c.op = "set_temperature"
             /\ c.args.hvac_mode = None
             /\ t # NoNumber
             /\ c.args.target_temp_low = NoNumber
             /\ c.args.target_temp_high = NoNumber)
            => /\ (BeginStep(s) /\ self_hvac_mode = HVAC_HEAT)
                    => /\ Len(c.issued) = 1
                       /\ c.issued[1].capability = CAP_HEATING_SETPOINT
                       /\ c.issued[1].command = "setHeatingSetpoint"
                       /\ c.issued[1].num = Round(t, 3)
                       /\ t % 10 = 0 => c.issued[1].num = t
               /\ (BeginStep(s) /\ self_hvac_mode = HVAC_COOL)
                    => /\ Len(c.issued) = 1
                       /\ c.issued[1].capability = CAP_COOLING_SETPOINT
                       /\ c.issued[1].command = "setCoolingSetpoint"
                       /\ c.issued[1].num = Round(t, 3)
                       /\ t % 10 = 0 => c.issued[1].num = t
               /\ ~BeginStep(s) => c.issued = calls[s].issued]_vars

\* C10 witness: in heat, 24.0006 was asked and the call returned having sent
\* the heating setpoint 24.001 alone.
C10_Witness ==
    /\ entity = "Thermostat"
    /\ self_hvac_mode = HVAC_HEAT
    /\ calls[1].op = "set_temperature"
    /\ calls[1].args = Args(None, 240006, NoNumber, NoNumber, None)
    /\ calls[1].pc = "returned"
    /\ calls[1].issued = <<SetHeatingSetpoint(240010)>>
    /\ numbers[ATTR_HEATING_SETPOINT] = 240010

\* C11: a set_temperature call on a thermostat that carries a temperature
\* and no bounds, and whose effective mode (the mode of the call, else the
\* cached mode) is heat_cool, returns at once having sent no command.
C11_AmbiguousRequestSendsNothing ==
    [][\A s \in Slots :
        LET c == calls'[s]
            effective == IF c.args.hvac_mode # None THEN c.args.hvac_mode
                         ELSE self_hvac_mode
        IN  (/\ entity = "Thermostat"
             /\ BeginStep(s)
             /\ c.op = "set_temperature"
             /\ c.args.temperature # NoNumber
             /\ c.args.target_temp_low = NoNumber
             /\ c.args.target_temp_high = NoNumber
             /\ effective = HVAC_HEAT_COOL)
            => /\ c.issued = <<>>
               /\ c.pc = "returned"]_vars

\* C12: on a thermostat, in heat_cool the low target is the heating
\* setpoint, the high target is the cooling setpoint and the single target
\* is unset; the single target is the heating setpoint in heat, the cooling
\* setpoint in cool and unset in every other mode; low and high are unset
\* in every mode but heat_cool.
C12_TargetsByMode ==
    LET target == ThermostatTargetTemperature(self_hvac_mode, numbers)
        low == ThermostatTargetTemperatureLow(self_hvac_mode, numbers)
        high == ThermostatTargetTemperatureHigh(self_hvac_mode, numbers)
    IN  entity = "Thermostat"
        => /\ self_hvac_mode = HVAC_HEAT_COOL
                => /\ low = numbers[ATTR_HEATING_SETPOINT]
                   /\ high = numbers[ATTR_COOLING_SETPOINT]
                   /\ target = NoNumber
           /\ self_hvac_mode = HVAC_HEAT
                => target = numbers[ATTR_HEATING_SETPOINT]
           /\ self_hvac_mode = HVAC_COOL
                => target = numbers[ATTR_COOLING_SETPOINT]
           /\ self_hvac_mode \notin {HVAC_HEAT, HVAC_COOL} => target = NoNumber
           /\ self_hvac_mode # HVAC_HEAT_COOL
                => low = NoNumber /\ high = NoNumber

\* C12 witness: refreshed to heat_cool with the heating setpoint 18.0 and
\* the cooling setpoint 24.0.
C12_Witness ==
    /\ entity = "Thermostat"
    /\ self_hvac_mode = HVAC_HEAT_COOL
    /\ status[ATTR_THERMOSTAT_MODE] = "auto"
    /\ numbers[ATTR_HEATING_SETPOINT] = 180000
    /\ numbers[ATTR_COOLING_SETPOINT] = 240000
    /\ ThermostatTargetTemperatureLow(self_hvac_mode, numbers) = 180000
    /\ ThermostatTargetTemperatureHigh(self_hvac_mode, numbers) = 240000
    /\ ThermostatTargetTemperature(self_hvac_mode, numbers) = NoNumber

\* A preset name that is windFree in some letter case.
IsWindFree(mode) == Lower(mode) = "windfree"

\* C13: when the supportedAcOptionalMode list of an air conditioner holds
\* windFree in some letter case, preset_modes holds no windFree while
\* airConditionerMode is auto or heat, and holds every windFree of the list
\* for any other airConditionerMode.
C13_WindFreeHiddenInAutoAndHeat ==
    LET reported == lists[ATTR_SUPPORTED_PRESETS]
        modes == PresetModes(lists, status)
    IN  (/\ entity = "AirConditioner"
         /\ reported.kind = "list"
         /\ \E mode \in Range(reported.items) : IsWindFree(mode))
        => IF status[ATTR_AC_MODE] \in {"auto", "heat"}
           THEN \A mode \in Range(modes) : ~IsWindFree(mode)
           ELSE \A mode \in Range(reported.items) :
                    IsWindFree(mode) => mode \in Range(modes)

\* C13 witness: set_hvac_mode(heat) was acknowledged on a device that lists
\* off, windFree and sleep; preset_modes is down to sleep.
C13_Witness ==
    /\ entity = "AirConditioner"
    /\ calls[1].op = "set_hvac_mode"
    /\ calls[1].pc = "returned"
    /\ status[ATTR_AC_MODE] = "heat"
    /\ lists[ATTR_SUPPORTED_PRESETS] = ListOf(<<"off", "windFree", "sleep">>)
    /\ lists[ATTR_MNMO] = Absent
    /\ PresetModes(lists, status) = <<"sleep">>

C15_ReverseThenForward ==
    /\ \A m \in DOMAIN STATE_TO_MODE :
            /\ STATE_TO_MODE[m] \in DOMAIN MODE_TO_STATE
            /\ MODE_TO_STATE[STATE_TO_MODE[m]] = m
    /\ \A m \in DOMAIN STATE_TO_AC_MODE :
            /\ STATE_TO_AC_MODE[m] \in DOMAIN AC_MODE_TO_STATE
            /\ AC_MODE_TO_STATE[STATE_TO_AC_MODE[m]] = m
    /\ \A s \in Slots : \A i \in 1..Len(calls[s].issued) :
            LET cmd == calls[s].issued[i]
            IN  /\ cmd.command = "setThermostatMode"
                    => Get(MODE_TO_STATE, cmd.arg) = calls[s].args.hvac_mode
                /\ cmd.command = "setAirConditionerMode"
                    => Get(AC_MODE_TO_STATE, cmd.arg) = calls[s].args.hvac_mode

\* C15 witness: set_hvac_mode(fan_only) on a thermostat sent "wind", the
\* device took it and the refresh reads fan_only back.
C15_Witness ==
    /\ entity = "Thermostat"
    /\ calls[1].op = "set_hvac_mode"
    /\ calls[1].args.hvac_mode = HVAC_FAN_ONLY
    /\ calls[1].issued = <<SetThermostatMode("wind")>>
    /\ calls[1].outcome = <<"true">>
    /\ status[ATTR_THERMOSTAT_MODE] = "wind"
    /\ self_hvac_mode = HVAC_FAN_ONLY

\* The supported modes an entity can hold before a refresh.
EarlierModes ==
    {NoModes, ModesOf({}), ModesOf({HVAC_OFF}), ModesOf(HVACMode)}

StartsAndRefuses(s) ==
    /\ calls'[s].issued = <<>>
    /\ calls'[s].pc = "returned"
    /\ status' = status
    /\ numbers' = numbers
    /\ lists' = lists
    /\ self_hvac_mode' = self_hvac_mode
    /\ self_hvac_modes' = self_hvac_modes

\* C17 as stated: set_hvac_mode with a mode the reverse table of the entity
\* has no entry for sends no command and changes nothing.
C17_UnmappedModeRefused ==
    [][\A s \in Slots :
        (/\ BeginStep(s)
         /\ calls'[s].op = "set_hvac_mode"
         /\ \/ /\ entity = "Thermostat"
               /\ calls'[s].args.hvac_mode \notin DOMAIN STATE_TO_MODE
            \/ /\ entity = "AirConditioner"
               /\ calls'[s].args.hvac_mode \notin DOMAIN STATE_TO_AC_MODE)
            => StartsAndRefuses(s)]_vars

\* C17 amended: the same, except for off on an air conditioner, which
\* STATE_TO_AC_MODE has no entry for and which is handed to turn_off.
C17_UnmappedModeRefusedButOff ==
    [][\A s \in Slots :
        (/\ BeginStep(s)
         /\ calls'[s].op = "set_hvac_mode"
         /\ \/ /\ entity = "Thermostat"
               /\ calls'[s].args.hvac_mode \notin DOMAIN STATE_TO_MODE
            \/ /\ entity = "AirConditioner"
               /\ calls'[s].args.hvac_mode \notin DOMAIN STATE_TO_AC_MODE
               /\ calls'[s].args.hvac_mode # HVAC_OFF)
            => StartsAndRefuses(s)]_vars

\* C17 witness: set_hvac_mode(dry) on a thermostat in heat returned having
\* sent nothing.
C17_Witness ==
    /\ entity = "Thermostat"
    /\ calls[1].op = "set_hvac_mode"
    /\ calls[1].args.hvac_mode = HVAC_DRY
    /\ calls[1].pc = "returned"
    /\ calls[1].issued = <<>>
    /\ status[ATTR_THERMOSTAT_MODE] = "heat"
    /\ self_hvac_mode = HVAC_HEAT

\* C18: once set_fan_mode(v) or set_swing_mode(v) of an air conditioner
\* with the capability has returned, its command answered truthy or falsy,
\* fan_mode (swing_mode) is v.
C18_FanAndSwingCachedOnAcknowledgement ==
    \A s \in Slots :
        LET c == calls[s]
        IN  (/\ entity = "AirConditioner"
             /\ c.pc = "returned"
             /\ c.issued # <<>>
             /\ c.outcome[1] \in {"true", "false"})
            => /\ c.op = "set_fan_mode"
                    => AcFanMode(capabilities, status) = c.args.value
               /\ c.op = "set_swing_mode"
                    => AcSwingMode(capabilities, status) = c.args.value

\* How many commands of a sequence carry the command name.
CountOf(issued, command) ==
    Cardinality({i \in 1..Len(issued) : issued[i].command = command})

\* C19: set_hvac_mode(off) on an air conditioner sends the switch "off"
\* command alone; set_hvac_mode(m) for a mode of STATE_TO_AC_MODE sends one
\* setAirConditionerMode with the token of m, one switch "on" exactly when
\* the switch is not on and the device has the switch capability, and
\* nothing else; nothing is sent later in the call; and the call has
\* returned only when every command it sent has been answered.
C19_SetHvacModeDispatch ==
    [][\A s \in Slots :
        LET c == calls'[s]
            m == c.args.hvac_mode
            on == IF ~Switch(status) /\ CAP_SWITCH \in capabilities
                  THEN 1 ELSE 0
        IN  (entity = "AirConditioner" /\ c.op = "set_hvac_mode")
            => /\ (BeginStep(s) /\ m = HVAC_OFF)
                    => c.issued = <<SwitchOff>>
               /\ (BeginStep(s) /\ m \in DOMAIN STATE_TO_AC_MODE)
                    => /\ CountOf(c.issued, "setAirConditionerMode") = 1
                       /\ SetAirConditionerMode(STATE_TO_AC_MODE[m])
                            \in Range(c.issued)
                       /\ CountOf(c.issued, "on") = on
                       /\ Len(c.issued) = 1 + on
               /\ ~BeginStep(s) => c.issued = calls[s].issued
               /\ c.pc = "returned" => AllDone(c)]_vars

\* C19 witness: set_hvac_mode(cool) on a switched-off device returned after
\* both of its commands were answered, the first one falsy.
C19_Witness ==
    /\ entity = "AirConditioner"
    /\ calls[1].op = "set_hvac_mode"
    /\ calls[1].args.hvac_mode = HVAC_COOL
    /\ calls[1].issued = <<SwitchOn, SetAirConditionerMode("cool")>>
    /\ calls[1].outcome = <<"false", "true">>
    /\ calls[1].pc = "returned"

\* C20: when set_hvac_mode sends the switch "on" command and the mode
\* command, the mode command is not answered while the switch command is
\* still with the transport.
C20_SwitchOnAnsweredFirst ==
    \A s \in Slots :
        LET c == calls[s]
        IN  (/\ entity = "AirConditioner"
             /\ c.op = "set_hvac_mode"
             /\ Len(c.issued) = 2
             /\ c.issued[1] = SwitchOn)
            => (c.outcome[2] # Pending => c.outcome[1] # Pending)

\* C21: when a coroutine that sent several commands is over and one of its
\* commands raised, every command it sent has been answered and the state
\* has been published.
C21_FailedCommandWaitsForTheOthers ==
    \A s \in Slots :
        LET c == calls[s]
        IN  (Len(c.issued) >= 2 /\ AnyRaised(c) /\ Over(c))
            => AllDone(c) /\ c.published

\* C22: a set_temperature call on a thermostat that carries hvac_mode cool
\* (heat) and a temperature sends, whatever the cached mode, the mode
\* command with the token of that mode, the cooling (heating) setpoint with
\* the temperature rounded to three decimals, and no heating (cooling)
\* setpoint.
C22_SetpointByRequestedMode ==
    [][\A s \in Slots :
        LET c == calls'[s]
            m == c.args.hvac_mode
            t == c.args.temperature
            own == IF m = HVAC_COOL THEN SetCoolingSetpoint(Round(t, 3))
                   ELSE SetHeatingSetpoint(Round(t, 3))
            other == IF m = HVAC_COOL THEN "setHeatingSetpoint"
                     ELSE "setCoolingSetpoint"
        IN  (/\ entity = "Thermostat"
             /\ BeginStep(s)
             /\ c.op = "set_temperature"
             /\ m \in {HVAC_HEAT, HVAC_COOL}
             /\ t # NoNumber)
            => /\ CountOf(c.issued, "setThermostatMode") = 1
               /\ SetThermostatMode(STATE_TO_MODE[m]) \in Range(c.issued)
               /\ CountOf(c.issued, own.command) = 1
               /\ own \in Range(c.issued)
               /\ CountOf(c.issued, other) = 0
               /\ Len(c.issued) = 2]_vars

\* C22 witness: in heat, set_temperature(hvac_mode = cool, 24.0006) returned
\* having sent the mode "cool" and the cooling setpoint 24.001.
C22_Witness ==
    /\ entity = "Thermostat"
    /\ self_hvac_mode = HVAC_HEAT
    /\ calls[1].op = "set_temperature"
    /\ calls[1].args = Args(HVAC_COOL, 240006, NoNumber, NoNumber, None)
    /\ calls[1].issued =
            <<SetThermostatMode("cool"), SetCoolingSetpoint(240010)>>
    /\ calls[1].pc = "returned"

\* C23: a set_temperature call on a thermostat whose effective mode (the
\* mode of the call, else the cached mode) is heat_cool sends the heating
\* setpoint exactly when a low bound is given, with the bound rounded to
\* three decimals, and the cooling setpoint exactly when a high bound is
\* given, likewise; and no other setpoint command.
C23_BoundsWrittenIndependently ==
    [][\A s \in Slots :
        LET c == calls'[s]
            effective == IF c.args.hvac_mode # None THEN c.args.hvac_mode
                         ELSE self_hvac_mode
            low == c.args.target_temp_low
            high == c.args.target_temp_high
        IN  (/\ entity = "Thermostat"
             /\ BeginStep(s)
             /\ c.op = "set_temperature"
             /\ effective = HVAC_HEAT_COOL)
            => /\ CountOf(c.issued, "setHeatingSetpoint") =
                    (IF low # NoNumber THEN 1 ELSE 0)
               /\ low # NoNumber
                    => SetHeatingSetpoint(Round(low, 3)) \in Range(c.issued)
               /\ CountOf(c.issued, "setCoolingSetpoint") =
                    (IF high # NoNumber THEN 1 ELSE 0)
               /\ high # NoNumber
                    => SetCoolingSetpoint(Round(high, 3)) \in Range(c.issued)]_vars

\* C23 witness: in heat_cool, set_temperature with the low bound 18.0 alone
\* returned having sent the heating setpoint alone.
C23_Witness ==
    /\ entity = "Thermostat"
    /\ self_hvac_mode = HVAC_HEAT_COOL
    /\ calls[1].op = "set_temperature"
    /\ calls[1].args = Args(None, NoNumber, 180000, NoNumber, None)
    /\ calls[1].issued = <<SetHeatingSetpoint(180000)>>
    /\ calls[1].pc = "returned"
    /\ numbers[ATTR_HEATING_SETPOINT] = 180000

C25_SetTemperatureOffTurnsOff ==
    [][\A s \in Slots :
        LET c == calls'[s]
        IN  (/\ entity = "AirConditioner"
             /\ Switch(status)
             /\ BeginStep(s)
             /\ c.op = "set_temperature"
             /\ c.args.hvac_mode = HVAC_OFF)
            => /\ SwitchOff \in Range(c.issued)
               /\ CountOf(c.issued, "setCoolingSetpoint") = 0
               /\ CountOf(c.issued, "setAirConditionerMode") = 0]_vars

\* C26: after every refresh of an air conditioner the supported modes are a
\* list that contains off, whatever supportedAcModes holds, and every other
\* member is the translation of an entry of supportedAcModes.
C26_AcRefreshAlwaysOffersOff ==
    [][AcUpdate =>
        LET supported_ac_modes == lists[ATTR_SUPPORTED_AC_MODES]
            modes == self_hvac_modes'
        IN  /\ modes.kind = "list"
            /\ HVAC_OFF \in modes.items
            /\ \A m \in modes.items \ {HVAC_OFF} :
                    /\ supported_ac_modes.kind = "list"
                    /\ \E i \in 1..Len(supported_ac_modes.items) :
                        /\ supported_ac_modes.items[i]
                                \in DOMAIN AC_MODE_TO_STATE
                        /\ AC_MODE_TO_STATE[supported_ac_modes.items[i]] = m
       ]_vars

\* C26 witness: a refreshed air conditioner whose supportedAcModes is
\* cool, heat and an entry no table has supports off, cool and heat.
C26_Witness ==
    /\ entity = "AirConditioner"
    /\ lists[ATTR_SUPPORTED_AC_MODES] = ListOf(<<"cool", "heat", "energy">>)
    /\ self_hvac_modes = ModesOf({HVAC_OFF, HVAC_COOL, HVAC_HEAT})

\* C27: after every refresh of a thermostat the supported modes are
\* exactly the translations of the recognised entries of
\* supportedThermostatModes; off is among them only if the entry off is.
C27_ThermostatRefreshTranslatesOnly ==
    [][ThermostatUpdate =>
        LET supported_modes == lists[ATTR_SUPPORTED_THERMOSTAT_MODES]
        IN  self_hvac_modes' =
                ModesOf(Translated(MODE_TO_STATE, supported_modes.items))
       ]_vars

\* C28: for either entity, current_temperature is unset when the device
\* has no temperatureMeasurement capability and current_humidity is unset
\* when it has no relativeHumidityMeasurement capability, whatever the
\* device reports.
C28_MeasurementsGatedByCapability ==
    LET temperature ==
            IF entity = "Thermostat"
            THEN ThermostatCurrentTemperature(capabilities, numbers)
            ELSE AcCurrentTemperature(capabilities, numbers)
        humidity ==
            IF entity = "Thermostat"
            THEN ThermostatCurrentHumidity(capabilities, numbers)
            ELSE AcCurrentHumidity(capabilities, numbers)
    IN  entity \in {"Thermostat", "AirConditioner"}
        => /\ CAP_TEMPERATURE \notin capabilities => temperature = NoNumber
           /\ CAP_HUMIDITY \notin capabilities => humidity = NoNumber

\* C29: a set_preset_mode call on an air conditioner with the preset
\* capability, whose model is not ARTIK051_KRAC_18K or whose preset is not
\* in the special table, sends exactly one command, setAcOptionalMode with
\* the preset as given, and no execute command.
C29_FallsBackToStandardCommand ==
    \A s \in Slots :
        LET c == calls[s]
        IN  (/\ entity = "AirConditioner"
             /\ c.op = "set_preset_mode"
             /\ CAP_PRESET \in capabilities
             /\ \/ ModelOf(lists) # ARTIK051_KRAC_18K
                \/ Lower(c.args.value) \notin DOMAIN CommandOptions)
            => c.issued = <<SetAcOptionalMode(c.args.value)>>

\* C30: a list returned by get_capabilities holds exactly the capabilities
\* that are both in the supported list and in the device's capabilities,
\* each once.
C30_RelevantIsIntersection ==
    relevant.kind = "list"
        => /\ Range(relevant.items) = Range(Supported) \cap capabilities
           /\ \A i, j \in 1..Len(relevant.items) :
                    relevant.items[i] = relevant.items[j] => i = j

\* C30 witness: get_capabilities returned four capabilities for a device
\* that has these four and one that no climate code names.
C30_Witness ==
    /\ capabilities = {CAP_THERMOSTAT, CAP_SWITCH, CAP_HUMIDITY,
                       CAP_DUST_FILTER, CAP_OTHER}
    /\ relevant = ListOf(<<CAP_SWITCH, CAP_THERMOSTAT, CAP_HUMIDITY,
                           CAP_DUST_FILTER>>)

\* C31: when a set_hvac_mode(m) call on an air conditioner, m not off,
\* returns with its commands acknowledged, after a turn_off call on the
\* same entity has returned, hvac_mode is m; also when the two calls ran
\* at the same time.
C31_LastModeRequestWins ==
    [][\A s, t \in Slots :
        LET c == calls'[s]
        IN  (/\ s # t
             /\ entity = "AirConditioner"
             /\ calls[s].pc = "await"
             /\ c.pc = "returned"
             /\ c.op = "set_hvac_mode"
             /\ c.args.hvac_mode # HVAC_OFF
             /\ c.issued # <<>>
             /\ AllTrue(c)
             /\ calls[t].op = "turn_off"
             /\ calls[t].pc = "returned")
            => AcHvacMode(capabilities, status') = c.args.hvac_mode]_vars

\* C32: no refresh and no read of a property, of either entity, sends a
\* command or changes an attribute of the device: over refreshes and reads
\* alone, status, numbers and lists stay as they are and no command is
\* sent.
C32_RefreshAndReadsLeaveTheDevice ==
    [][/\ status' = status
       /\ numbers' = numbers
       /\ lists' = lists
       /\ \A s \in Slots : calls'[s].issued = <<>>]_vars

\* C32 witness: an air conditioner in heat was refreshed; preset_modes is
\* down to sleep while the device still lists off, windFree and sleep.
C32_Witness ==
    /\ entity = "AirConditioner"
    /\ status[ATTR_AC_MODE] = "heat"
    /\ lists[ATTR_SUPPORTED_AC_MODES] = ListOf(<<"cool", "heat", "energy">>)
    /\ self_hvac_modes = ModesOf({HVAC_OFF, HVAC_COOL, HVAC_HEAT})
    /\ lists[ATTR_SUPPORTED_PRESETS] = ListOf(<<"off", "windFree", "sleep">>)
    /\ lists[ATTR_MNMO] = Absent
    /\ PresetModes(lists, status) = <<"sleep">>

====
